---- MODULE Spec2Model ----
EXTENDS Integers, Sequences, FiniteSets, TLC

(***************************************************************************)
(* The resumable onboarding orchestrator of amazon-connect-mcp             *)
(* (src/src/amazon_connect_mcp/tools/wizard.py): the three tools           *)
(* wizard_generate_faq_files, wizard_execute_onboarding and                *)
(* wizard_update_onboarding_state acting on the per-brand state file       *)
(* ./<brand>/<brand>_onboarding_state.json.                                *)
(*                                                                         *)
(* wizard.py uses json, re, Path, datetime and INDUSTRY_TEMPLATES without  *)
(* binding them in the file. The model takes them to be the standard       *)
(* library's json, re, pathlib.Path, datetime.datetime and a module-level  *)
(* dict with a "general" entry. Timestamps (started_at, updated_at) are    *)
(* not modelled: no operation reads them.                                  *)
(***************************************************************************)

VARIABLES
    dirs,      \* the brands whose directory ./<brand> exists
    faqFiles,  \* brand -> the files of ./<brand>/faq: file name -> content
    files,     \* brand -> the JSON document in its state file, or NoFile
    resp,      \* the last tool call made (its arguments) and what it returned
    offered,   \* brand -> the step number last returned as next_step and not
               \* yet superseded by a successful update or a reset (0: none)
    recorded,  \* brand -> resource key -> the value the driver last recorded
               \* under it by a successful update since the brand's state
               \* document was last started afresh (Absent: none)
    doneBefore, \* the number of completed_steps the called brand's state file
               \* held just before the last call (-1: it had no state file)
    sessions,  \* agent session -> the wizard_update_onboarding_state call its
               \* own server process is carrying out: where it stands, its
               \* arguments, the state it loaded and what it returned
    overlapped, \* whether a session ever loaded the state file while another
               \* session had loaded it and not yet written it back
    cloud,     \* Amazon Connect: instance id -> the region the instance is in
               \* (Absent: there is no such instance)
    session,   \* _session_context of tools/config.py: region and instance_id
    history    \* the calls made so far to the session tools and to
               \* delete_instance, oldest first

vars == <<dirs, faqFiles, files, resp, offered, recorded, doneBefore,
          sessions, overlapped, cloud, session, history>>

\* What the wizard tools never touch
serverVars == <<cloud, session, history>>

\* What the core and config tools never touch
wizardVars == <<dirs, faqFiles, files, offered, recorded, doneBefore,
                sessions, overlapped>>

----------------------------------------------------------------------------
(* Python values *)

\* None, where the code expects a str | None
None == "<None>"

\* A key that a dict does not hold
Absent == "<absent>"

\* bool(s) of a str | None: None and "" are falsy
Truthy(s) == s # None /\ s # ""

Contains(seq, x) == \E i \in 1..Len(seq) : seq[i] = x

ToSet(seq) == {seq[i] : i \in 1..Len(seq)}

----------------------------------------------------------------------------
(* The state document *)

Brands == {"acme", "globex"}

\* The keys of "resources": the names the plan reads or asks the driver to
\* save, and one name ("notes") the plan knows nothing of
ResourceKeys ==
    {"instance_id", "hours_of_operation_id", "queue_id", "routing_profile_id",
     "profiles_domain_name", "cases_domain_id", "cases_template_id", "notes"}

\* "resources": {}
EmptyResources == [k \in ResourceKeys |-> Absent]

\* len(completed_steps) of a state file, -1 when there is none
DoneIn(file) == IF file.exists THEN Len(file.completed_steps) ELSE -1

\* "error": None
NullError == [step |-> 0, message |-> None]

\* No file at ./<brand>/<brand>_onboarding_state.json
NoFile == [exists |-> FALSE]

\* hours_config = None
NoHours == [given |-> FALSE]

\* INDUSTRY_TEMPLATES.get(industry, INDUSTRY_TEMPLATES["general"]): the entry
\* is named by its key
KnownIndustries == {"general", "retail"}

Templates(industry) ==
    IF industry \in KnownIndustries THEN industry ELSE "general"

\* str(base_dir / "faq")
FaqDirectory(brand) == <<brand, "faq">>

\* The state wizard_generate_faq_files writes
FaqState(brand, count) ==
    [exists |-> TRUE,
     brand |-> brand,
     region |-> Absent,
     industry |-> Absent,
     current_phase |-> 0,
     current_step |-> 0,
     completed_steps |-> <<>>,
     resources |-> EmptyResources,
     faq_directory |-> FaqDirectory(brand),
     faq_count |-> count,
     hours_config |-> NoHours,
     templates |-> Absent,
     error |-> NullError]

\* The state wizard_execute_onboarding starts from when it does not load one
DefaultState(brand, region, industry) ==
    [exists |-> TRUE,
     brand |-> brand,
     region |-> region,
     industry |-> industry,
     current_phase |-> 1,
     current_step |-> 0,
     completed_steps |-> <<>>,
     resources |-> EmptyResources,
     faq_directory |-> <<>>,
     faq_count |-> -1,
     hours_config |-> NoHours,
     templates |-> Absent,
     error |-> NullError]

----------------------------------------------------------------------------
(* hours_config and _build_hours_config *)

\* A clock string such as "09:30" is the sequence of its characters
DigitChars == <<"0", "1", "2", "3", "4", "5", "6", "7", "8", "9">>

IsDigit(c) == \E i \in 1..10 : DigitChars[i] = c

DigitValue(c) == (CHOOSE i \in 1..10 : DigitChars[i] = c) - 1

\* s.split(":"): the pieces between the colons
RECURSIVE SplitColon(_, _, _)
SplitColon(s, i, piece) ==
    IF i > Len(s) THEN <<piece>>
    ELSE IF s[i] = ":" THEN <<piece>> \o SplitColon(s, i + 1, <<>>)
    ELSE SplitColon(s, i + 1, Append(piece, s[i]))

\* int(s) accepts a non-empty run of digits here (signs and blanks are not
\* drawn); anything else raises ValueError
IntParses(s) == Len(s) > 0 /\ \A i \in 1..Len(s) : IsDigit(s[i])

RECURSIVE ParseInt(_, _, _)
ParseInt(s, i, acc) ==
    IF i > Len(s) THEN acc ELSE ParseInt(s, i + 1, acc * 10 + DigitValue(s[i]))

\* item.get("start", "09:00") and item.get("end", "17:00")
DefaultStart == <<"0", "9", ":", "0", "0">>
DefaultEnd == <<"1", "7", ":", "0", "0">>

\* str.upper() on the day names drawn
UpperDay(day) ==
    CASE day = "monday" -> "MONDAY"
      [] day = "Saturday" -> "SATURDAY"
      [] day = "sunday" -> "SUNDAY"
      [] OTHER -> day

\* {"Hours": int(parts[0]), "Minutes": int(parts[1]) if len(parts) > 1 else 0}
ClockParses(s) ==
    LET parts == SplitColon(s, 1, <<>>)
    IN  IntParses(parts[1]) /\ (Len(parts) > 1 => IntParses(parts[2]))

ClockOf(s) ==
    LET parts == SplitColon(s, 1, <<>>)
    IN  [Hours |-> ParseInt(parts[1], 1, 0),
         Minutes |-> IF Len(parts) > 1 THEN ParseInt(parts[2], 1, 0) ELSE 0]

\* bool(hours_config): None and {} are falsy
HoursTruthy(h) == h.given /\ (h.timezone # Absent \/ h.has_schedule)

\* Mutant: only a missing hours_config (None) gets the default schedule
HoursDefaultedWhenNone(h) == ~h.given

\* not hours_config or "schedule" not in hours_config
HoursDefaulted(h) == ~HoursTruthy(h) \/ ~h.has_schedule

DefaultDays == <<"MONDAY", "TUESDAY", "WEDNESDAY", "THURSDAY", "FRIDAY">>

ItemStart(item) == IF item.start = <<>> THEN DefaultStart ELSE item.start

ItemEnd(item) == IF item.end = <<>> THEN DefaultEnd ELSE item.end

\* Whether _build_hours_config returns (int() raises on a malformed clock)
HoursConfigBuilds(h) ==
    HoursDefaulted(h) \/
    \A i \in 1..Len(h.schedule) :
        ClockParses(ItemStart(h.schedule[i])) /\ ClockParses(ItemEnd(h.schedule[i]))

BuildHoursConfig(h) ==
    IF HoursDefaulted(h)
    THEN [i \in 1..5 |->
            [Day |-> DefaultDays[i],
             StartTime |-> [Hours |-> 9, Minutes |-> 0],
             EndTime |-> [Hours |-> 17, Minutes |-> 0]]]
    ELSE [i \in 1..Len(h.schedule) |->
            [Day |-> UpperDay(IF h.schedule[i].day = Absent THEN "MONDAY"
                              ELSE h.schedule[i].day),
             StartTime |-> ClockOf(ItemStart(h.schedule[i])),
             EndTime |-> ClockOf(ItemEnd(h.schedule[i]))]]

\* hours_config.get("timezone", "America/New_York") if hours_config else ...
TimeZoneOf(h) ==
    IF HoursTruthy(h) /\ h.timezone # Absent THEN h.timezone
    ELSE "America/New_York"

----------------------------------------------------------------------------
(* The step plan of wizard_execute_onboarding *)

\* len(steps): the plan has ten steps
NumSteps == 10

\* Mutant: the descriptors are built from the placeholders alone
ResourceOrIgnoringSaved(resources, key, placeholder) == placeholder

\* resources.get(key, placeholder)
ResourceOr(resources, key, placeholder) ==
    IF resources[key] # Absent THEN resources[key] ELSE placeholder

\* Mutant: a step counts as completed when that many steps have been completed
IsCompletedByCount(completed, step) == step <= Len(completed)

\* `step in completed`
IsCompleted(completed, step) == Contains(completed, step)

\* steps = [...]: the ten descriptors, in the order of the list literal
BuildSteps(brand, region, hours, completed, resources) ==
    << [step |-> 1,
        phase |-> "Instance Creation",
        tool |-> "create_instance",
        params |-> [instance_alias |-> brand,
                    identity_management_type |-> "CONNECT_MANAGED",
                    region |-> region],
        save_output |-> "instance_id",
        completed |-> IsCompleted(completed, 1)],
       [step |-> 2,
        phase |-> "Wait for Instance",
        action |-> "wait",
        completed |-> IsCompleted(completed, 2)],
       [step |-> 3,
        phase |-> "Set Session",
        tool |-> "set_session",
        params |-> [instance_id |-> ResourceOr(resources, "instance_id", "<from step 1>"),
                    region |-> region],
        completed |-> IsCompleted(completed, 3)],
       [step |-> 4,
        phase |-> "Hours of Operation",
        tool |-> "config_create_hours_of_operation",
        params |-> [name |-> <<brand, " Hours">>,
                    time_zone |-> TimeZoneOf(hours),
                    config |-> BuildHoursConfig(hours)],
        save_output |-> "hours_of_operation_id",
        completed |-> IsCompleted(completed, 4)],
       [step |-> 5,
        phase |-> "Queue",
        tool |-> "config_create_queue",
        params |-> [name |-> <<brand, " Support">>,
                    hours_of_operation_id |->
                        ResourceOr(resources, "hours_of_operation_id", "<from step 4>")],
        save_output |-> "queue_id",
        completed |-> IsCompleted(completed, 5)],
       [step |-> 6,
        phase |-> "Routing Profile",
        tool |-> "config_create_routing_profile",
        params |-> [name |-> <<brand, " Agent">>,
                    default_outbound_queue_id |->
                        ResourceOr(resources, "queue_id", "<from step 5>")],
        save_output |-> "routing_profile_id",
        completed |-> IsCompleted(completed, 6)],
       [step |-> 7,
        phase |-> "Customer Profiles Domain",
        tool |-> "profiles_create_domain",
        params |-> [domain_name |-> brand],
        save_output |-> "profiles_domain_name",
        completed |-> IsCompleted(completed, 7)],
       [step |-> 8,
        phase |-> "Cases Domain",
        tool |-> "cases_create_domain",
        params |-> [name |-> brand],
        save_output |-> "cases_domain_id",
        completed |-> IsCompleted(completed, 8)],
       [step |-> 9,
        phase |-> "Cases Template",
        tool |-> "cases_create_template",
        params |-> [domain_id |-> ResourceOr(resources, "cases_domain_id", "<from step 8>"),
                    name |-> <<brand, " Support">>],
        save_output |-> "cases_template_id",
        completed |-> IsCompleted(completed, 9)],
       [step |-> 10,
        phase |-> "Q in Connect",
        action |-> "manual",
        faq_directory |-> FaqDirectory(brand),
        completed |-> IsCompleted(completed, 10)] >>

\* next_step = None
NoStep == [step |-> 0]

\* for step in steps: if not step["completed"]: next_step = step; break
RECURSIVE FirstIncomplete(_, _)
FirstIncomplete(steps, i) ==
    IF i > Len(steps) THEN NoStep
    ELSE IF ~steps[i].completed THEN steps[i]
    ELSE FirstIncomplete(steps, i + 1)

\* Mutant: the plan resumes at the position after the number of completed steps
NextStepByCount(steps) ==
    LET done == Cardinality({i \in 1..Len(steps) : steps[i].completed})
    IN  IF done >= Len(steps) THEN NoStep ELSE steps[done + 1]

\* Mutant: the loop has no break, so the last incomplete step is returned
NextStepWithoutBreak(steps) ==
    LET open == {i \in 1..Len(steps) : ~steps[i].completed}
    IN  IF open = {} THEN NoStep
        ELSE steps[CHOOSE i \in open : \A j \in open : j <= i]

NextStep(steps) == FirstIncomplete(steps, 1)

----------------------------------------------------------------------------
(* wizard_execute_onboarding *)

\* Mutant: the state file is never loaded
LoadOrCreateFresh(file, brand, region, industry, resume) ==
    DefaultState(brand, region, industry)

\* Mutant: an existing state file is loaded whatever resume says
LoadOrCreateWhenExists(file, brand, region, industry, resume) ==
    IF file.exists THEN file ELSE DefaultState(brand, region, industry)

\* if state_file.exists() and resume: load, else the default state
LoadOrCreate(file, brand, region, industry, resume) ==
    IF file.exists /\ resume THEN file ELSE DefaultState(brand, region, industry)

\* Mutant: the state is rebuilt from the keys the orchestrator knows, without
\* the FAQ fields
ConfigureRebuilding(state, region, industry, hours) ==
    [state EXCEPT !.region = region,
                  !.industry = industry,
                  !.hours_config = IF HoursTruthy(hours) THEN hours ELSE @,
                  !.templates = Templates(industry),
                  !.faq_directory = <<>>,
                  !.faq_count = -1]

\* Mutant: the progress is cleared whenever the state is configured
ConfigureRestarting(state, region, industry, hours) ==
    [state EXCEPT !.region = region,
                  !.industry = industry,
                  !.hours_config = IF HoursTruthy(hours) THEN hours ELSE @,
                  !.templates = Templates(industry),
                  !.completed_steps = <<>>,
                  !.resources = EmptyResources]

\* state["region"], state["industry"], state["hours_config"], state["templates"]
Configure(state, region, industry, hours) ==
    [state EXCEPT !.region = region,
                  !.industry = industry,
                  !.hours_config = IF HoursTruthy(hours) THEN hours ELSE @,
                  !.templates = Templates(industry)]

\* The dict the tool returns
PlanResponse(brand, region, industry, hours, state) ==
    LET steps == BuildSteps(brand, region, hours, state.completed_steps, state.resources)
    IN  [brand |-> brand,
         region |-> region,
         industry |-> industry,
         progress |-> <<Len(state.completed_steps), Len(steps)>>,
         resources |-> state.resources,
         steps |-> steps,
         next_step |-> NextStep(steps)]

\* save_state() opens ./<brand>/<brand>_onboarding_state.json for writing; the
\* tool never creates ./<brand>, so the write raises FileNotFoundError when
\* the directory is missing. A malformed clock in hours_config raises
\* ValueError after the state has been saved.
Execute(brand, region, industry, hours, resume) ==
    LET state == Configure(LoadOrCreate(files[brand], brand, region, industry, resume),
                           region, industry, hours)
        call == [op |-> "execute", brand |-> brand, resume |-> resume, hours |-> hours]
    IN  /\ dirs' = dirs
        /\ doneBefore' = DoneIn(files[brand])
        /\ UNCHANGED <<sessions, overlapped>>
        /\ UNCHANGED serverVars
        /\ faqFiles' = faqFiles
        /\ IF brand \notin dirs
           THEN /\ files' = files
                /\ offered' = offered
                /\ recorded' = recorded
                /\ resp' = [call |-> call, raised |-> "FileNotFoundError"]
           ELSE /\ files' = [files EXCEPT ![brand] = state]
                /\ recorded' = IF files[brand].exists /\ resume THEN recorded
                               ELSE [recorded EXCEPT ![brand] = EmptyResources]
                /\ IF HoursConfigBuilds(hours)
                   THEN LET plan == PlanResponse(brand, region, industry, hours, state)
                        IN  /\ resp' = [call |-> call, raised |-> None, result |-> plan]
                            /\ offered' = [offered EXCEPT ![brand] = plan.next_step.step]
                   ELSE /\ resp' = [call |-> call, raised |-> "ValueError"]
                        /\ offered' = offered

----------------------------------------------------------------------------
(* wizard_update_onboarding_state *)

\* Mutant: the step is appended without the membership test
MarkCompletedAlways(completed, step) == Append(completed, step)

\* Mutant: the list is replaced by the one step instead of being appended to
MarkCompletedOverwriting(completed, step) ==
    IF Contains(completed, step) THEN completed ELSE <<step>>

\* if step not in completed_steps: completed_steps.append(step)
MarkCompleted(completed, step) ==
    IF Contains(completed, step) THEN completed ELSE Append(completed, step)

\* Mutant: a key keeps the first value saved under it (setdefault)
SaveResourceFirstOnly(resources, key, value) ==
    IF Truthy(key) /\ Truthy(value) /\ resources[key] = Absent
    THEN [resources EXCEPT ![key] = value]
    ELSE resources

\* Mutant: the resources dict is replaced by one holding the new entry alone
SaveResourceReplacing(resources, key, value) ==
    IF Truthy(key) /\ Truthy(value) THEN [EmptyResources EXCEPT ![key] = value]
    ELSE resources

\* if resource_key and resource_value: resources[resource_key] = resource_value
SaveResource(resources, key, value) ==
    IF Truthy(key) /\ Truthy(value) THEN [resources EXCEPT ![key] = value]
    ELSE resources

\* Mutant: the resource is saved outside the else branch, on a failure too
ApplyUpdateSavingOnError(state, step, key, value, error) ==
    IF Truthy(error)
    THEN [state EXCEPT !.error = [step |-> step, message |-> error],
                       !.resources = SaveResource(@, key, value)]
    ELSE [state EXCEPT !.completed_steps = MarkCompleted(@, step),
                       !.resources = SaveResource(@, key, value),
                       !.current_step = step,
                       !.error = NullError]

\* Mutant: a success clears only an error recorded for the same step
ApplyUpdateKeepingOtherError(state, step, key, value, error) ==
    IF Truthy(error)
    THEN [state EXCEPT !.error = [step |-> step, message |-> error]]
    ELSE [state EXCEPT !.completed_steps = MarkCompleted(@, step),
                       !.resources = SaveResource(@, key, value),
                       !.current_step = step,
                       !.error = IF @.step = step THEN NullError ELSE @]

\* Mutant: the step is marked complete before the error is looked at
ApplyUpdateCompletingOnError(state, step, key, value, error) ==
    IF Truthy(error)
    THEN [state EXCEPT !.completed_steps = MarkCompleted(@, step),
                       !.error = [step |-> step, message |-> error]]
    ELSE [state EXCEPT !.completed_steps = MarkCompleted(@, step),
                       !.resources = SaveResource(@, key, value),
                       !.current_step = step,
                       !.error = NullError]

\* Mutant: current_step is the number of completed steps
ApplyUpdateCountingSteps(state, step, key, value, error) ==
    IF Truthy(error)
    THEN [state EXCEPT !.error = [step |-> step, message |-> error]]
    ELSE [state EXCEPT !.completed_steps = MarkCompleted(@, step),
                       !.resources = SaveResource(@, key, value),
                       !.current_step = Len(MarkCompleted(state.completed_steps, step)),
                       !.error = NullError]

\* The if error: ... else: ... of the tool
ApplyUpdate(state, step, key, value, error) ==
    IF Truthy(error)
    THEN [state EXCEPT !.error = [step |-> step, message |-> error]]
    ELSE [state EXCEPT !.completed_steps = MarkCompleted(@, step),
                       !.resources = SaveResource(@, key, value),
                       !.current_step = step,
                       !.error = NullError]

\* {resource_key: resource_value} if resource_key else None
ResourceSaved(key, value) == IF Truthy(key) THEN <<key, value>> ELSE <<>>

\* return {"error": f"State file not found: {state_file}"}
StateNotFound == [error |-> "State file not found"]

\* Mutant: a missing state file is replaced by a default state and updated
UpdateOutcomeCreating(file, brand, step, key, value, error) ==
    LET start == IF file.exists THEN file ELSE DefaultState(brand, Absent, Absent)
        state == ApplyUpdate(start, step, key, value, error)
    IN  [file |-> state,
         result |-> [brand |-> brand,
                     step_completed |-> step,
                     resource_saved |-> ResourceSaved(key, value),
                     total_completed |-> Len(state.completed_steps),
                     state |-> state]]

\* The whole tool: the state file afterwards and the dict returned
UpdateOutcome(file, brand, step, key, value, error) ==
    IF ~file.exists
    THEN [file |-> file, result |-> StateNotFound]
    ELSE LET state == ApplyUpdate(file, step, key, value, error)
         IN  [file |-> state,
              result |-> [brand |-> brand,
                          step_completed |-> step,
                          resource_saved |-> ResourceSaved(key, value),
                          total_completed |-> Len(state.completed_steps),
                          state |-> state]]

Update(brand, step, key, value, error) ==
    LET call == [op |-> "update", brand |-> brand, step |-> step,
                 resource_key |-> key, resource_value |-> value, error |-> error]
        out == UpdateOutcome(files[brand], brand, step, key, value, error)
        success == files[brand].exists /\ ~Truthy(error)
    IN  /\ dirs' = dirs
        /\ doneBefore' = DoneIn(files[brand])
        /\ UNCHANGED <<sessions, overlapped>>
        /\ UNCHANGED serverVars
        /\ faqFiles' = faqFiles
        /\ files' = [files EXCEPT ![brand] = out.file]
        /\ resp' = [call |-> call, raised |-> None, result |-> out.result]
        /\ offered' = IF success THEN [offered EXCEPT ![brand] = 0] ELSE offered
        /\ recorded' = IF success /\ Truthy(key) /\ Truthy(value)
                       THEN [recorded EXCEPT ![brand][key] = value]
                       ELSE recorded

\* Mutant: the state is read again under a lock held until it is written
StateToWriteLocked(loaded, onDisk) == onDisk

\* state = json.loads(state_file.read_text()): the dict loaded at the start
\* of the call is the one modified and written back, whatever the file
\* holds by then
StateToWrite(loaded, onDisk) == loaded

\* A session with no call under way
Idle == [pc |-> "idle"]

\* The sessions after session s has written the state file of the brand and
\* returned: what another session loaded from that file before is stale
AfterWrite(s, brand, returned) ==
    [t \in DOMAIN sessions |->
        IF t = s THEN returned
        ELSE IF sessions[t].pc = "loaded" /\ sessions[t].call.brand = brand
        THEN [sessions[t] EXCEPT !.stale = TRUE]
        ELSE sessions[t]]

\* Another session has loaded the brand's state file and not written it yet
LoadedElsewhere(s, brand) ==
    \E t \in DOMAIN sessions :
        t # s /\ sessions[t].pc = "loaded" /\ sessions[t].call.brand = brand

\* wizard_execute_onboarding up to the state being loaded or created
ExecuteRead(s, brand, region, industry, hours, resume) ==
    LET call == [op |-> "execute", brand |-> brand, region |-> region,
                 industry |-> industry, hours |-> hours, resume |-> resume]
    IN  /\ sessions[s].pc = "idle"
        /\ sessions' = [sessions EXCEPT ![s] =
                [pc |-> "loaded", call |-> call,
                 loaded |-> LoadOrCreate(files[brand], brand, region, industry, resume),
                 stale |-> FALSE]]
        /\ overlapped' = (overlapped \/
                            (files[brand].exists /\ resume /\ LoadedElsewhere(s, brand)))
        /\ UNCHANGED <<dirs, faqFiles, files, resp, offered, recorded, doneBefore>>
        /\ UNCHANGED serverVars

\* The rest of wizard_execute_onboarding: the state is configured and saved
\* (save_state), the plan is built and returned
ExecuteWrite(s) ==
    LET call == sessions[s].call
        state == Configure(sessions[s].loaded, call.region, call.industry, call.hours)
        done == [pc |-> "returned", call |-> call, loaded |-> sessions[s].loaded,
                 stale |-> sessions[s].stale]
    IN  /\ sessions[s].pc = "loaded"
        /\ sessions[s].call.op = "execute"
        /\ IF call.brand \notin dirs
           THEN /\ files' = files
                /\ sessions' = [sessions EXCEPT ![s] =
                        [r \in DOMAIN done \cup {"raised"} |->
                            IF r = "raised" THEN "FileNotFoundError" ELSE done[r]]]
           ELSE /\ files' = [files EXCEPT ![call.brand] = state]
                /\ sessions' = AfterWrite(s, call.brand,
                        IF HoursConfigBuilds(call.hours)
                        THEN [r \in DOMAIN done \cup {"raised", "result"} |->
                                IF r = "raised" THEN None
                                ELSE IF r = "result"
                                THEN PlanResponse(call.brand, call.region, call.industry,
                                                  call.hours, state)
                                ELSE done[r]]
                        ELSE [r \in DOMAIN done \cup {"raised"} |->
                                IF r = "raised" THEN "ValueError" ELSE done[r]])
        /\ UNCHANGED <<dirs, faqFiles, resp, offered, recorded, doneBefore, overlapped>>
        /\ UNCHANGED serverVars

\* The call up to and including state_file.read_text(). Each agent session
\* runs its own server process on the same working directory, so the calls
\* of two sessions interleave between the read and the write of the state
\* file. A read is taken to see the file whole.
UpdateRead(s, brand, step, key, value, error) ==
    LET call == [op |-> "update", brand |-> brand, step |-> step,
                 resource_key |-> key, resource_value |-> value, error |-> error]
    IN  /\ sessions[s].pc = "idle"
        /\ sessions' = [sessions EXCEPT ![s] =
                IF files[brand].exists
                THEN [pc |-> "loaded", call |-> call, loaded |-> files[brand],
                      stale |-> FALSE]
                ELSE [pc |-> "returned", call |-> call, loaded |-> NoFile,
                      stale |-> FALSE, result |-> StateNotFound]]
        /\ overlapped' = (overlapped \/
                            (files[brand].exists /\
                             \E t \in DOMAIN sessions :
                                /\ t # s
                                /\ sessions[t].pc = "loaded"
                                /\ sessions[t].call.brand = brand))
        /\ UNCHANGED <<dirs, faqFiles, files, resp, offered, recorded, doneBefore>>
        /\ UNCHANGED serverVars

\* The rest of the call: the if/else on the loaded dict, write_text, return
UpdateWrite(s) ==
    LET call == sessions[s].call
        out == UpdateOutcome(StateToWrite(sessions[s].loaded, files[call.brand]),
                             call.brand, call.step, call.resource_key,
                             call.resource_value, call.error)
    IN  /\ sessions[s].pc = "loaded"
        /\ sessions[s].call.op = "update"
        /\ files' = [files EXCEPT ![call.brand] = out.file]
        /\ sessions' = AfterWrite(s, call.brand,
                [pc |-> "returned", call |-> call, loaded |-> sessions[s].loaded,
                 stale |-> sessions[s].stale, result |-> out.result])
        /\ UNCHANGED <<dirs, faqFiles, resp, offered, recorded, doneBefore, overlapped>>
        /\ UNCHANGED serverVars

----------------------------------------------------------------------------
(* wizard_generate_faq_files *)

\* A title and a file name are the sequences of their characters
LowerChars ==
    <<"a", "b", "c", "d", "e", "f", "g", "h", "i", "j", "k", "l", "m",
      "n", "o", "p", "q", "r", "s", "t", "u", "v", "w", "x", "y", "z">>

UpperChars ==
    <<"A", "B", "C", "D", "E", "F", "G", "H", "I", "J", "K", "L", "M",
      "N", "O", "P", "Q", "R", "S", "T", "U", "V", "W", "X", "Y", "Z">>

\* c.lower()
LowerChar(c) ==
    IF \E i \in 1..26 : UpperChars[i] = c
    THEN LowerChars[CHOOSE i \in 1..26 : UpperChars[i] = c]
    ELSE c

LowerString(s) == [i \in 1..Len(s) |-> LowerChar(s[i])]

\* [a-z0-9]
IsSlugChar(c) == IsDigit(c) \/ \E i \in 1..26 : LowerChars[i] = c

\* re.sub(r"[^a-z0-9]+", "-", s): every run of other characters becomes one "-"
RECURSIVE SubRuns(_, _, _)
SubRuns(s, i, inRun) ==
    IF i > Len(s) THEN <<>>
    ELSE IF IsSlugChar(s[i]) THEN <<s[i]>> \o SubRuns(s, i + 1, FALSE)
    ELSE IF inRun THEN SubRuns(s, i + 1, TRUE)
    ELSE <<"-">> \o SubRuns(s, i + 1, TRUE)

\* s.strip("-")
RECURSIVE StripDashes(_)
StripDashes(s) ==
    IF Len(s) = 0 THEN s
    ELSE IF s[1] = "-" THEN StripDashes(Tail(s))
    ELSE IF s[Len(s)] = "-" THEN StripDashes(SubSeq(s, 1, Len(s) - 1))
    ELSE s

\* [:50]
SlugCap == 50

Truncate(s, n) == IF Len(s) > n THEN SubSeq(s, 1, n) ELSE s

\* Mutant: the slug is cut to 50 characters before the dashes are stripped
SlugifyCutFirst(title) ==
    StripDashes(Truncate(SubRuns(LowerString(title), 1, FALSE), SlugCap))

Slugify(title) == Truncate(StripDashes(SubRuns(LowerString(title), 1, FALSE)), SlugCap)

\* str(i)
RECURSIVE Decimal(_)
Decimal(i) ==
    IF i < 10 THEN <<DigitChars[i + 1]>>
    ELSE Decimal(i \div 10) \o <<DigitChars[(i % 10) + 1]>>

\* f"{i:02d}"
TwoDigits(i) == IF i < 10 THEN <<"0">> \o Decimal(i) ELSE Decimal(i)

\* faq.get("title", f"Question {i}")
TitleOf(faq, i) ==
    IF faq.has_title THEN faq.title
    ELSE <<"Q", "u", "e", "s", "t", "i", "o", "n", " ">> \o Decimal(i)

\* f"{i:02d}-{filename}.txt"
FaqFileName(faq, i) ==
    TwoDigits(i) \o <<"-">> \o Slugify(TitleOf(faq, i)) \o <<".", "t", "x", "t">>

\* The text written: title, summary and content in the fixed layout
FaqFileContent(faq, i) ==
    [Title |-> TitleOf(faq, i), Summary |-> faq.summary, Content |-> faq.content]

\* filepath.write_text(file_content): creates the file or overwrites it
WriteFile(dir, name, content) ==
    [n \in (DOMAIN dir) \cup {name} |-> IF n = name THEN content ELSE dir[n]]

\* for i, faq in enumerate(faqs, 1): write the i-th file
RECURSIVE WriteFaqs(_, _, _)
WriteFaqs(dir, faqs, i) ==
    IF i > Len(faqs) THEN dir
    ELSE WriteFaqs(WriteFile(dir, FaqFileName(faqs[i], i), FaqFileContent(faqs[i], i)),
                   faqs, i + 1)

\* created_files: the paths in the order written
CreatedFiles(brand, faqs) ==
    [i \in 1..Len(faqs) |-> <<brand, "faq", FaqFileName(faqs[i], i)>>]

\* Mutant: an existing state file keeps its progress and only has the FAQ
\* fields refreshed
SavedFaqStateMerging(file, brand, count) ==
    IF file.exists
    THEN [file EXCEPT !.faq_directory = FaqDirectory(brand), !.faq_count = count]
    ELSE FaqState(brand, count)

\* state_file.write_text(json.dumps(state, indent=2)): the new state replaces
\* whatever the state file held
SavedFaqState(file, brand, count) == FaqState(brand, count)

GenerateFaq(brand, faqs) ==
    LET created == CreatedFiles(brand, faqs)
        state == SavedFaqState(files[brand], brand, Len(created))
    IN  /\ dirs' = dirs \cup {brand}
        /\ doneBefore' = DoneIn(files[brand])
        /\ UNCHANGED <<sessions, overlapped>>
        /\ UNCHANGED serverVars
        /\ faqFiles' = [faqFiles EXCEPT ![brand] = WriteFaqs(@, faqs, 1)]
        /\ files' = [files EXCEPT ![brand] = state]
        /\ offered' = [offered EXCEPT ![brand] = 0]
        /\ recorded' = [recorded EXCEPT ![brand] = EmptyResources]
        /\ resp' = [call |-> [op |-> "generate_faq", brand |-> brand, faqs |-> faqs],
                    raised |-> None,
                    result |-> [brand |-> brand,
                                faq_directory |-> FaqDirectory(brand),
                                files_created |-> created]]

----------------------------------------------------------------------------
(* get_instance_region of aws_clients.py *)

\* common_regions, in the order of the list literal
CommonRegions == <<"us-east-1", "us-west-2", "eu-west-1", "ap-southeast-2">>

\* Regions that ec2.describe_regions may name besides
OtherRegions == {"eu-central-1", "sa-east-1"}

Regions == ToSet(CommonRegions) \cup OtherRegions

\* ec2.describe_regions() raised (boto3.client('ec2') is built without a
\* region and the listing is an API call like any other)
ListingFails == [returned |-> FALSE, regions |-> <<>>]

Listing(regions) == [returned |-> TRUE, regions |-> regions]

\* One for loop: describe_instance is tried in each region in turn, a failure
\* moves on to the next region, a success returns the region
RECURSIVE ProbeEach(_, _, _, _)
ProbeEach(regions, ok, i, probes) ==
    IF i > Len(regions) THEN [region |-> None, probes |-> probes]
    ELSE IF regions[i] \in ok
         THEN [region |-> regions[i], probes |-> Append(probes, regions[i])]
         ELSE ProbeEach(regions, ok, i + 1, Append(probes, regions[i]))

\* Mutant: the second loop tries the common regions again
NotYetProbedNone(region) == TRUE

\* if region in common_regions: continue
NotYetProbed(region) == region \notin ToSet(CommonRegions)

\* return region
RegionFound(attempt, regions) == attempt.region

\* get_instance_region where describe_instance succeeds in the regions `ok`:
\* the region returned or the exception raised, and the regions probed
GetInstanceRegion(ok, listing) ==
    LET first == ProbeEach(CommonRegions, ok, 1, <<>>)
        rest == SelectSeq(listing.regions, NotYetProbed)
        second == ProbeEach(rest, ok, 1, first.probes)
    IN  IF first.region # None
        THEN [raised |-> None, region |-> RegionFound(first, CommonRegions),
              probes |-> first.probes]
        ELSE IF ~listing.returned
        THEN [raised |-> "ListingError", region |-> None, probes |-> first.probes]
        ELSE IF second.region # None
        THEN [raised |-> None, region |-> RegionFound(second, rest),
              probes |-> second.probes]
        ELSE [raised |-> "ValueError", region |-> None, probes |-> second.probes]

----------------------------------------------------------------------------
(* create_instance and delete_instance of tools/core.py *)

\* The instance ids Amazon Connect may hand out
InstanceIds == {"i-1", "i-2"}

\* The regions in which describe_instance succeeds for an instance id
FoundIn(cloudNow, instance_id) ==
    IF cloudNow[instance_id] = Absent THEN {} ELSE {cloudNow[instance_id]}

\* The API calls of a tool call, in order: the describe_instance probes
DescribeCalls(probes, instance_id) ==
    [i \in 1..Len(probes) |->
        [api |-> "describe_instance", region |-> probes[i], instance_id |-> instance_id]]

\* return {"status": "CONFIRMATION_REQUIRED", ...}
ConfirmationRequired(cloudNow, instance_id) ==
    [cloud |-> cloudNow,
     raised |-> None,
     result |-> [status |-> "CONFIRMATION_REQUIRED", instance_id |-> instance_id],
     api |-> <<>>]

\* get_instance_region, client.delete_instance, return {"status": "DELETED", ...}
Deletion(cloudNow, instance_id, listing) ==
    LET located == GetInstanceRegion(FoundIn(cloudNow, instance_id), listing)
    IN  IF located.raised # None
        THEN [cloud |-> cloudNow,
              raised |-> located.raised,
              api |-> DescribeCalls(located.probes, instance_id)]
        ELSE [cloud |-> [cloudNow EXCEPT ![instance_id] = Absent],
              raised |-> None,
              result |-> [status |-> "DELETED", instance_id |-> instance_id],
              api |-> Append(DescribeCalls(located.probes, instance_id),
                             [api |-> "delete_instance", region |-> located.region,
                              instance_id |-> instance_id])]

\* Mutant: a confirmed call deletes only after an unconfirmed call for the
\* same instance
DeleteOutcomeAfterPrompt(cloudNow, past, instance_id, confirm, listing) ==
    IF confirm /\ \E i \in 1..Len(past) :
                    /\ past[i].op = "delete_instance"
                    /\ past[i].instance_id = instance_id
                    /\ ~past[i].confirm
    THEN Deletion(cloudNow, instance_id, listing)
    ELSE ConfirmationRequired(cloudNow, instance_id)

\* delete_instance: `past` (the earlier calls) is not looked at
DeleteOutcome(cloudNow, past, instance_id, confirm, listing) ==
    IF ~confirm THEN ConfirmationRequired(cloudNow, instance_id)
    ELSE Deletion(cloudNow, instance_id, listing)

DeleteInstance(instance_id, confirm, listing) ==
    LET call == [op |-> "delete_instance", instance_id |-> instance_id,
                 confirm |-> confirm]
        out == DeleteOutcome(cloud, history, instance_id, confirm, listing)
    IN  /\ cloud' = out.cloud
        /\ resp' = [r \in (DOMAIN out \ {"cloud"}) \cup {"call"} |->
                        IF r = "call" THEN call ELSE out[r]]
        /\ history' = Append(history, call)
        /\ UNCHANGED session
        /\ UNCHANGED wizardVars

\* describe_instance, up to the return of get_instance_region, for an
\* instance id for which describe_instance succeeds in the regions `ok`
DescribeInstance(instance_id, ok, listing) ==
    LET located == GetInstanceRegion(ok, listing)
    IN  /\ resp' = [call |-> [op |-> "describe_instance", instance_id |-> instance_id],
                    ok |-> ok,
                    listing |-> listing,
                    raised |-> located.raised,
                    region |-> located.region,
                    probes |-> located.probes]
        /\ UNCHANGED serverVars
        /\ UNCHANGED wizardVars

\* create_instance: Amazon Connect makes the instance in the region asked for
\* and names it by an id not in use
CreateInstance(instance_alias, region) ==
    \E id \in InstanceIds :
        /\ cloud[id] = Absent
        /\ cloud' = [cloud EXCEPT ![id] = region]
        /\ resp' = [call |-> [op |-> "create_instance", instance_alias |-> instance_alias,
                               region |-> region],
                    raised |-> None,
                    result |-> [Id |-> id],
                    api |-> <<[api |-> "create_instance", region |-> region,
                               instance_alias |-> instance_alias]>>]
        /\ UNCHANGED <<session, history>>
        /\ UNCHANGED wizardVars

----------------------------------------------------------------------------
(* The session context of tools/config.py and a config tool that uses it *)

\* _session_context = {"region": None, "instance_id": None}
EmptySession == [region |-> None, instance_id |-> None]

\* settings.aws_region
DefaultRegion == "us-west-2"

\* a or b, of two str | None
Or(a, b) == IF Truthy(a) THEN a ELSE b

\* Mutant: both fields are assigned whatever was passed
SessionAfterSetOverwriting(ctx, instance_id, region) ==
    [region |-> region, instance_id |-> instance_id]

\* if instance_id: ...["instance_id"] = instance_id; if region: likewise
SessionAfterSet(ctx, instance_id, region) ==
    [region |-> IF Truthy(region) THEN region ELSE ctx.region,
     instance_id |-> IF Truthy(instance_id) THEN instance_id ELSE ctx.instance_id]

SetSession(instance_id, region) ==
    LET call == [op |-> "set_session", instance_id |-> instance_id, region |-> region]
        ctx == SessionAfterSet(session, instance_id, region)
    IN  /\ session' = ctx
        /\ resp' = [call |-> call, raised |-> None, result |-> [session |-> ctx],
                    api |-> <<>>]
        /\ history' = Append(history, call)
        /\ UNCHANGED cloud
        /\ UNCHANGED wizardVars

ClearSession ==
    LET call == [op |-> "clear_session"]
    IN  /\ session' = EmptySession
        /\ resp' = [call |-> call, raised |-> None,
                    result |-> [message |-> "Session context cleared"], api |-> <<>>]
        /\ history' = Append(history, call)
        /\ UNCHANGED cloud
        /\ UNCHANGED wizardVars

\* _get_client: region or _session_context.get("region"), and then
\* get_connect_client: region or settings.aws_region
ClientRegion(ctx, region) == Or(Or(region, ctx.region), DefaultRegion)

\* _get_instance: instance_id or _session_context.get("instance_id")
EffectiveInstance(ctx, instance_id) == Or(instance_id, ctx.instance_id)

\* config_create_queue: the client is built, then _get_instance raises
\* ValueError when there is no instance id, then create_queue is called
ConfigCreateQueue(name, instance_id, region) ==
    LET call == [op |-> "config_create_queue", name |-> name,
                 instance_id |-> instance_id, region |-> region]
        effective_instance_id == EffectiveInstance(session, instance_id)
    IN  /\ resp' = IF ~Truthy(effective_instance_id)
                   THEN [call |-> call, raised |-> "ValueError", api |-> <<>>]
                   ELSE [call |-> call, raised |-> None,
                         result |-> [QueueId |-> "q-1"],
                         api |-> <<[api |-> "create_queue",
                                    region |-> ClientRegion(session, region),
                                    instance_id |-> effective_instance_id]>>]
        /\ UNCHANGED serverVars
        /\ UNCHANGED wizardVars

----------------------------------------------------------------------------
(* The tools as the calling agent may invoke them *)

\* The agent sessions that work on the same directory at the same time
Sessions == {"s1", "s2"}

\* No call made yet
NoCall == [call |-> [op |-> "none"], raised |-> None]

\* The working directory when the server starts: no state file, and ./<brand>
\* present or not
Init ==
    /\ dirs \in SUBSET Brands
    /\ faqFiles = [b \in Brands |-> <<>>]
    /\ files = [b \in Brands |-> NoFile]
    /\ resp = NoCall
    /\ offered = [b \in Brands |-> 0]
    /\ recorded = [b \in Brands |-> EmptyResources]
    /\ doneBefore = -1
    /\ sessions = [s \in Sessions |-> Idle]
    /\ overlapped = FALSE
    /\ cloud = [i \in InstanceIds |-> Absent]
    /\ session = EmptySession
    /\ history = <<>>

Faq1 ==
    [has_title |-> TRUE, title |-> <<"H", "o", "u", "r", "s", "?">>,
     summary |-> "Our business hours", content |-> "9 to 5"]

(* Spec: one driver working on the brand "acme", reporting the steps
   1..MaxStep in any order, any number of times, as done or as failed *)

MaxStep == 2

FaqLists == {<<>>, <<Faq1>>}

CallGenerate == \E faqs \in FaqLists : GenerateFaq("acme", faqs)

CallExecute ==
    \E resume \in BOOLEAN : Execute("acme", "us-east-1", "general", NoHours, resume)

CallUpdate ==
    \E step \in 1..MaxStep, key \in {None, "instance_id"},
       value \in {None, "i-001"}, error \in {None, "", "timeout"} :
        Update("acme", step, key, value, error)

Next == CallGenerate \/ CallExecute \/ CallUpdate

Spec == Init /\ [][Next]_vars

----------------------------------------------------------------------------
(* Properties of the progress updater and of resuming, under Spec *)

\* The last call was wizard_update_onboarding_state for brand b
IsUpdate(r, b) == r.call.op = "update" /\ r.call.brand = b

\* The last call was wizard_execute_onboarding for brand b, and it returned
IsPlan(r, b) == r.call.op = "execute" /\ r.call.brand = b /\ r.raised = None

\* C3 (idempotent completion): the completed_steps of every state file holds
\* no step number twice, whatever calls were made.
C3_NoDuplicateCompletedSteps ==
    \A b \in Brands :
        files[b].exists =>
            \A i, j \in 1..Len(files[b].completed_steps) :
                files[b].completed_steps[i] = files[b].completed_steps[j] => i = j

\* Step 1 was reported done again after step 2: it is still listed once
C3_Witness ==
    /\ IsUpdate(resp, "acme")
    /\ resp.call.step = 1
    /\ ~Truthy(resp.call.error)
    /\ files["acme"].exists
    /\ files["acme"].completed_steps = <<1, 2>>

\* C4 (error does not advance progress): an update carrying an error message
\* for step s sets error to {step: s, message} and leaves completed_steps,
\* resources and current_step as they were, also when a resource pair is passed.
C4_ErrorDoesNotAdvance ==
    [][\A b \in Brands :
          (IsUpdate(resp', b) /\ Truthy(resp'.call.error) /\ files[b].exists) =>
              /\ files'[b].error =
                     [step |-> resp'.call.step, message |-> resp'.call.error]
              /\ files'[b].completed_steps = files[b].completed_steps
              /\ files'[b].resources = files[b].resources
              /\ files'[b].current_step = files[b].current_step]_vars

\* Step 2 reported as failed with a resource pair, after step 1 was done
C4_Witness ==
    /\ IsUpdate(resp, "acme")
    /\ resp.call.step = 2
    /\ resp.call.error = "timeout"
    /\ resp.call.resource_key = "instance_id"
    /\ resp.call.resource_value = "i-001"
    /\ files["acme"].exists
    /\ files["acme"].error = [step |-> 2, message |-> "timeout"]
    /\ files["acme"].completed_steps = <<1>>
    /\ files["acme"].current_step = 1
    /\ files["acme"].resources["instance_id"] = Absent

\* C5: an update without an error for step s ends with error null, s in
\* completed_steps and current_step = s, whatever error was recorded before.
C5_SuccessClearsError ==
    [][\A b \in Brands :
          (IsUpdate(resp', b) /\ ~Truthy(resp'.call.error) /\ files[b].exists) =>
              /\ files'[b].error = NullError
              /\ Contains(files'[b].completed_steps, resp'.call.step)
              /\ files'[b].current_step = resp'.call.step]_vars

\* Step 2 reported done; nothing of an earlier failure is left
C5_Witness ==
    /\ IsUpdate(resp, "acme")
    /\ resp.call.step = 2
    /\ resp.call.error = None
    /\ files["acme"].exists
    /\ files["acme"].error = NullError
    /\ files["acme"].completed_steps = <<2>>
    /\ files["acme"].current_step = 2

\* C6 (retry after failure): when the step last returned as next_step has
\* just been reported as failed, the next plan request with resume=True
\* returns that step again.
C6_RetryAfterFailure ==
    [][\A b \in Brands :
          (/\ IsUpdate(resp, b)
           /\ Truthy(resp.call.error)
           /\ offered[b] # 0
           /\ resp.call.step = offered[b]
           /\ IsPlan(resp', b)
           /\ resp'.call.resume) =>
              resp'.result.next_step.step = offered[b]]_vars

\* Step 2 is offered again while its failure is on record
C6_Witness ==
    /\ IsPlan(resp, "acme")
    /\ resp.call.resume
    /\ resp.result.next_step.step = 2
    /\ offered["acme"] = 2
    /\ files["acme"].error = [step |-> 2, message |-> "timeout"]

\* C7 (resume determinism): a plan request with resume=True leaves the
\* completed_steps, resources and error of an existing state file as they
\* were, and returns the next_step the preceding plan request returned when
\* no other call came in between.
C7_ResumeDeterminism ==
    [][\A b \in Brands :
          (IsPlan(resp', b) /\ resp'.call.resume) =>
              /\ files[b].exists =>
                    /\ files'[b].completed_steps = files[b].completed_steps
                    /\ files'[b].resources = files[b].resources
                    /\ files'[b].error = files[b].error
              /\ IsPlan(resp, b) =>
                    resp'.result.next_step = resp.result.next_step]_vars

\* A plan request that resumes after step 1 and is offered step 2
C7_Witness ==
    /\ IsPlan(resp, "acme")
    /\ resp.call.resume
    /\ files["acme"].completed_steps = <<1>>
    /\ files["acme"].resources["instance_id"] = "i-001"
    /\ resp.result.next_step.step = 2

\* C9 (first call for a new brand): a plan request with resume=True for a
\* brand without a state file persists a fresh state (no completed steps, no
\* resources, no error) and returns step 1 as next_step, also when nothing
\* of the brand is on disk yet.
C9_FirstCallCreatesState ==
    [][\A b \in Brands :
          (/\ resp'.call.op = "execute"
           /\ resp'.call.brand = b
           /\ resp'.call.resume
           /\ ~files[b].exists) =>
              /\ resp'.raised = None
              /\ files'[b].exists
              /\ files'[b].completed_steps = <<>>
              /\ files'[b].resources = EmptyResources
              /\ files'[b].error = NullError
              /\ resp'.result.next_step.step = 1]_vars

\* A wizard_update_onboarding_state call for b that found the state file and
\* carried no error has just returned
Succeeded(b) == IsUpdate(resp', b) /\ files[b].exists /\ ~Truthy(resp'.call.error)

\* The largest number of a non-empty list
MaxOf(seq) == CHOOSE m \in ToSet(seq) : \A x \in ToSet(seq) : x <= m

\* C23 as stated: after a successful wizard_update_onboarding_state call,
\* current_step is the largest step number in completed_steps and is not
\* lower than it was.
C23_CurrentStepIsHighest ==
    [][\A b \in Brands :
          Succeeded(b) =>
              /\ files'[b].current_step = MaxOf(files'[b].completed_steps)
              /\ files'[b].current_step >= files[b].current_step]_vars

\* C23 as amended: after a successful wizard_update_onboarding_state call,
\* current_step is the step number of that call; it is the largest step
\* number in completed_steps, and not lower than it was, when no higher step
\* had been completed before the call.
C23_CurrentStepIsLastReported ==
    [][\A b \in Brands :
          Succeeded(b) =>
              /\ files'[b].current_step = resp'.call.step
              /\ (\A x \in ToSet(files[b].completed_steps) : x <= resp'.call.step) =>
                    /\ files'[b].current_step = MaxOf(files'[b].completed_steps)
                    /\ files'[b].current_step >= files[b].current_step]_vars

\* Step 1 was reported as done after step 2: current_step is 1
C23_Witness ==
    /\ IsUpdate(resp, "acme")
    /\ ~Truthy(resp.call.error)
    /\ resp.call.step = 1
    /\ files["acme"].exists
    /\ files["acme"].completed_steps = <<2, 1>>
    /\ files["acme"].current_step = 1

\* C26 (resource_saved): in the response of a wizard_update_onboarding_state
\* call that found the state file, resource_saved is non-null only if the
\* call's key now holds the call's value in resources, and is non-null if
\* the call changed resources; a call with an error, or with a resource_key
\* and no resource_value, has resource_saved null and leaves resources as
\* they were.
C26_ResourceSavedMeansWritten ==
    [][\A b \in Brands :
          (IsUpdate(resp', b) /\ files[b].exists) =>
              LET call == resp'.call
                  saved == resp'.result.resource_saved
              IN  /\ saved # <<>> =>
                        /\ Truthy(call.resource_key)
                        /\ files'[b].resources[call.resource_key] = call.resource_value
                  /\ files'[b].resources # files[b].resources => saved # <<>>
                  /\ (\/ Truthy(call.error)
                      \/ Truthy(call.resource_key) /\ ~Truthy(call.resource_value)) =>
                        /\ saved = <<>>
                        /\ files'[b].resources = files[b].resources]_vars

\* The state file of b holds the faq_directory and faq_count that
\* wizard_generate_faq_files writes
HasFaqFields(b) == files[b].exists /\ files[b].faq_count # -1

\* C18 as stated: once faq_directory and faq_count are in a brand's state
\* file, every wizard_execute_onboarding call (resume true or false) and
\* every wizard_update_onboarding_state call for the brand leaves them as
\* they are.
C18_FaqFieldsKept ==
    [][\A b \in Brands :
          (/\ HasFaqFields(b)
           /\ resp'.call.op \in {"execute", "update"}
           /\ resp'.call.brand = b)
          => /\ files'[b].faq_directory = files[b].faq_directory
             /\ files'[b].faq_count = files[b].faq_count]_vars

\* C18 as amended: the same for every wizard_execute_onboarding call with
\* resume=True and every wizard_update_onboarding_state call. (A call with
\* resume=False writes the default state, which has neither field.)
C18_FaqFieldsKeptUnlessFreshStart ==
    [][\A b \in Brands :
          (/\ HasFaqFields(b)
           /\ resp'.call.brand = b
           /\ \/ resp'.call.op = "update"
              \/ resp'.call.op = "execute" /\ resp'.call.resume)
          => /\ files'[b].faq_directory = files[b].faq_directory
             /\ files'[b].faq_count = files[b].faq_count]_vars

\* The plan was resumed on a state that has the FAQ fields and one step done
C18_Witness ==
    /\ IsPlan(resp, "acme")
    /\ resp.call.resume
    /\ HasFaqFields("acme")
    /\ files["acme"].faq_directory = FaqDirectory("acme")
    /\ files["acme"].faq_count = 1
    /\ files["acme"].completed_steps = <<1>>

\* completed_steps holds no step while a lower step of the plan is absent
NoGaps(file) ==
    \A n \in ToSet(file.completed_steps) :
        \A m \in 1..NumSteps : m < n => m \in ToSet(file.completed_steps)

\* C16 as stated: whatever wizard_update_onboarding_state calls are made,
\* completed_steps never contains a step number while a lower-numbered step
\* of the plan is absent from it.
C16_NoGapsUnderAnyUpdates ==
    \A b \in Brands : files[b].exists => NoGaps(files[b])

\* C16 as amended: a wizard_update_onboarding_state call leaves
\* completed_steps without gaps if it had none and the call reports an
\* error, or a step already completed, or the lowest step of the plan not
\* yet completed. (The tool accepts every other step number as well.)
C16_NoGapsWhenLowestMissingReported ==
    [][\A b \in Brands :
          (/\ IsUpdate(resp', b)
           /\ files[b].exists
           /\ NoGaps(files[b])
           /\ \/ Truthy(resp'.call.error)
              \/ resp'.call.step \in ToSet(files[b].completed_steps)
              \/ \A m \in 1..NumSteps :
                    m < resp'.call.step <=> m \in ToSet(files[b].completed_steps))
          => NoGaps(files'[b])]_vars

\* Step 2 was reported as done after step 1
C16_Witness ==
    /\ IsUpdate(resp, "acme")
    /\ ~Truthy(resp.call.error)
    /\ resp.call.step = 2
    /\ doneBefore = 1
    /\ files["acme"].completed_steps = <<1, 2>>

----------------------------------------------------------------------------
(* OrderSpec: one driver working on "acme" that reports each step at most
   once, as done, in ascending order of the step numbers 0..NumSteps+1, and
   may leave steps out: every set of step numbers comes to be completed *)

Ascending(completed, step) == \A i \in 1..Len(completed) : completed[i] < step

OrderGenerate == GenerateFaq("acme", <<Faq1>>)

\* A custom hours_config: Saturday 10:30 to 14 o'clock, London time
WeekendHours ==
    [given |-> TRUE,
     timezone |-> "Europe/London",
     has_schedule |-> TRUE,
     schedule |-> <<[day |-> "Saturday",
                     start |-> <<"1", "0", ":", "3", "0">>,
                     end |-> <<"1", "4">>]>>]

OrderExecute ==
    \E resume \in BOOLEAN, hours \in {NoHours, WeekendHours} :
        Execute("acme", "us-east-1", "general", hours, resume)

OrderUpdate ==
    \E step \in 0..(NumSteps + 1) :
        /\ files["acme"].exists => Ascending(files["acme"].completed_steps, step)
        /\ Update("acme", step, None, None, None)

OrderNext == OrderGenerate \/ OrderExecute \/ OrderUpdate

OrderSpec == Init /\ [][OrderNext]_vars

\* The plan steps missing from the completed_steps of b's state file
Missing(b) == {n \in 1..NumSteps : ~(n \in ToSet(files[b].completed_steps))}

LowestMissing(b) == CHOOSE n \in Missing(b) : \A m \in Missing(b) : n <= m

\* C1: a plan request with resume=True returns as next_step the descriptor of
\* the lowest step of 1..10 that is not in the persisted completed_steps, and
\* null exactly when all of 1..10 are in it.
C1_NextStepIsLowestMissing ==
    \A b \in Brands :
        (IsPlan(resp, b) /\ resp.call.resume) =>
            /\ (resp.result.next_step = NoStep) <=> (Missing(b) = {})
            /\ Missing(b) # {} =>
                  /\ resp.result.next_step = resp.result.steps[LowestMissing(b)]
                  /\ resp.result.next_step.step = LowestMissing(b)

\* All ten steps are done and the plan request returns no next step
C1_Witness ==
    /\ IsPlan(resp, "acme")
    /\ resp.call.resume
    /\ Missing("acme") = {}
    /\ resp.result.next_step = NoStep

----------------------------------------------------------------------------
(* ResourceSpec: one driver working on "acme" that reports step 5, as done or
   as failed, with any of the resource keys the plan reads and one of two
   identifiers, or none *)

\* The resource a step's parameter is filled from, and the text standing in
\* for it
Dependencies ==
    { [key |-> "instance_id", step |-> 3, param |-> "instance_id",
       placeholder |-> "<from step 1>"],
      [key |-> "hours_of_operation_id", step |-> 5, param |-> "hours_of_operation_id",
       placeholder |-> "<from step 4>"],
      [key |-> "queue_id", step |-> 6, param |-> "default_outbound_queue_id",
       placeholder |-> "<from step 5>"],
      [key |-> "cases_domain_id", step |-> 9, param |-> "domain_id",
       placeholder |-> "<from step 8>"] }

DependencyKeys == {d.key : d \in Dependencies}

ResGenerate == GenerateFaq("acme", <<Faq1>>)

ResExecute ==
    \E resume \in BOOLEAN : Execute("acme", "us-east-1", "general", NoHours, resume)

ResUpdate ==
    \E key \in DependencyKeys \cup {None}, value \in {None, "id-1", "id-2"},
       error \in {None, "timeout"} :
        Update("acme", 5, key, value, error)

ResNext == ResGenerate \/ ResExecute \/ ResUpdate

ResourceSpec == Init /\ [][ResNext]_vars

\* C8 (resource propagation): in every plan returned, the parameter of step 3,
\* 5, 6 and 9 that depends on instance_id, hours_of_operation_id, queue_id and
\* cases_domain_id is the value last recorded under that key by a successful
\* update, and the placeholder text when none has been recorded.
C8_ResourcePropagation ==
    \A b \in Brands :
        IsPlan(resp, b) =>
            \A d \in Dependencies :
                resp.result.steps[d.step].params[d.param] =
                    IF recorded[b][d.key] # Absent THEN recorded[b][d.key]
                    ELSE d.placeholder

\* queue_id was recorded twice and the plan carries the later value, beside
\* the placeholder of a key never recorded
C8_Witness ==
    /\ IsPlan(resp, "acme")
    /\ recorded["acme"]["queue_id"] = "id-2"
    /\ recorded["acme"]["instance_id"] = Absent
    /\ resp.result.steps[6].params.default_outbound_queue_id = "id-2"
    /\ resp.result.steps[3].params.instance_id = "<from step 1>"

\* C17 (resources are never deleted): a wizard_update_onboarding_state call
\* leaves every key of resources that was present before the call present,
\* and leaves every key other than its resource_key with the value (or the
\* absence) it had.
C17_UpdateKeepsResources ==
    [][\A b \in Brands :
          (IsUpdate(resp', b) /\ files[b].exists) =>
              \A k \in ResourceKeys :
                  /\ files[b].resources[k] # Absent => files'[b].resources[k] # Absent
                  /\ k # resp'.call.resource_key =>
                        files'[b].resources[k] = files[b].resources[k]]_vars

\* queue_id was saved in a state that already held instance_id
C17_Witness ==
    /\ IsUpdate(resp, "acme")
    /\ resp.call.resource_key = "queue_id"
    /\ resp.call.resource_value = "id-2"
    /\ files["acme"].exists
    /\ files["acme"].resources["queue_id"] = "id-2"
    /\ files["acme"].resources["instance_id"] = "id-1"

\* The number of steps of a returned plan whose completed flag is true
Flagged(plan) == Cardinality({i \in 1..Len(plan.steps) : plan.steps[i].completed})

\* C25 (progress count): in every plan returned, the first number of
\* progress is the number of plan steps flagged completed, and when it is
\* the number of steps of the plan, next_step is null.
C25_ProgressCountsFlaggedSteps ==
    \A b \in Brands :
        IsPlan(resp, b) =>
            /\ resp.result.progress[1] = Flagged(resp.result)
            /\ resp.result.progress[1] = Len(resp.result.steps) =>
                    resp.result.next_step = NoStep

----------------------------------------------------------------------------
(* BrandSpec: the tools called for two brands in any interleaving, step 1
   reported as done or as failed *)

BrandGenerate == \E b \in Brands : GenerateFaq(b, <<Faq1>>)

BrandExecute ==
    \E b \in Brands, resume \in BOOLEAN :
        Execute(b, "us-east-1", "general", NoHours, resume)

BrandUpdate ==
    \E b \in Brands, key \in {None, "instance_id"}, value \in {None, "i-001"},
       error \in {None, "timeout"} :
        Update(b, 1, key, value, error)

BrandNext == BrandGenerate \/ BrandExecute \/ BrandUpdate

BrandSpec == Init /\ [][BrandNext]_vars

\* C10: an update for a brand without a state file returns the error result
\* and changes nothing: no state file appears, and no directory, FAQ file or
\* state of any brand changes.
C10_UpdateWithoutStateFile ==
    [][\A b \in Brands :
          (IsUpdate(resp', b) /\ ~files[b].exists) =>
              /\ resp'.result = StateNotFound
              /\ files' = files
              /\ dirs' = dirs
              /\ faqFiles' = faqFiles]_vars

\* The update for "acme" was refused while "globex" has recorded progress
C10_Witness ==
    /\ IsUpdate(resp, "acme")
    /\ resp.result = StateNotFound
    /\ ~files["acme"].exists
    /\ files["globex"].exists
    /\ files["globex"].completed_steps = <<1>>
    /\ files["globex"].resources["instance_id"] = "i-001"

----------------------------------------------------------------------------
(* DriverSpec: the calling agent as the tool descriptions tell it to work on
   "acme": it requests the plan, carries out the next_step it was handed and
   reports that step as done (saving the output under the step's save_output
   key, or saving nothing) or as failed. It may also regenerate the FAQ
   files or ask for a fresh start at any time. *)

\* The save_output key of a step descriptor, None when it has none
SaveOutputOf(descriptor) ==
    IF "save_output" \in DOMAIN descriptor THEN descriptor.save_output ELSE None

\* Step `step` as the plan describes it
Descriptor(step) == BuildSteps("acme", "us-east-1", NoHours, <<>>, EmptyResources)[step]

DriverGenerate == GenerateFaq("acme", <<Faq1>>)

DriverPlan ==
    \E resume \in BOOLEAN : Execute("acme", "us-east-1", "general", NoHours, resume)

DriverReport ==
    \E value \in {None, "id-1"}, error \in {None, "timeout"} :
        /\ offered["acme"] # 0
        /\ Update("acme", offered["acme"], SaveOutputOf(Descriptor(offered["acme"])),
                  value, error)

DriverNext == DriverGenerate \/ DriverPlan \/ DriverReport

DriverSpec == Init /\ [][DriverNext]_vars

\* The state file of brand b records no progress
Blank(b) ==
    /\ files[b].exists
    /\ files[b].completed_steps = <<>>
    /\ files[b].resources = EmptyResources
    /\ files[b].error = NullError

\* C11 (fresh-state isolation): after wizard_generate_faq_files for a brand
\* the brand's state file has empty completed_steps, empty resources and a
\* null error, whatever progress it held before the call.
C11_GenerateFaqResetsProgress ==
    \A b \in Brands :
        (resp.call.op = "generate_faq" /\ resp.call.brand = b) => Blank(b)

\* The FAQ files were generated for a brand that had completed all ten steps
C11_Witness ==
    /\ resp.call.op = "generate_faq"
    /\ resp.call.brand = "acme"
    /\ doneBefore = NumSteps
    /\ Blank("acme")

\* C15 (strict ordering): when the driver reports success only for the step
\* last returned as next_step, completed_steps is always the list 1, 2, ..., k
\* for some k in 0..10: the steps were marked in the order of the plan, none
\* before its predecessor.
C15_StrictOrdering ==
    \A b \in Brands :
        files[b].exists =>
            \E k \in 0..NumSteps : files[b].completed_steps = [i \in 1..k |-> i]

\* The driver has worked through the whole plan
C15_Witness ==
    /\ IsUpdate(resp, "acme")
    /\ resp.call.step = NumSteps
    /\ files["acme"].completed_steps = [i \in 1..NumSteps |-> i]

\* C12 (explicit fresh start): a wizard_execute_onboarding call with
\* resume=False leaves a state file with empty completed_steps and empty
\* resources and returns step 1 as next_step, whatever the state file held;
\* with resume=True and a state file present, completed_steps and resources
\* are what they were before the call.
C12_FreshStartOrResume ==
    [][\A b \in Brands :
          IsPlan(resp', b) =>
              /\ ~resp'.call.resume =>
                    /\ files'[b].exists
                    /\ files'[b].completed_steps = <<>>
                    /\ files'[b].resources = EmptyResources
                    /\ resp'.result.next_step.step = 1
              /\ (resp'.call.resume /\ files[b].exists) =>
                    /\ files'[b].completed_steps = files[b].completed_steps
                    /\ files'[b].resources = files[b].resources]_vars

\* A fresh start was asked for on a brand that had completed all ten steps
C12_Witness ==
    /\ IsPlan(resp, "acme")
    /\ ~resp.call.resume
    /\ doneBefore = NumSteps
    /\ files["acme"].completed_steps = <<>>
    /\ resp.result.next_step.step = 1

----------------------------------------------------------------------------
(* ConcurrentSpec: after some calls made one at a time, two agent sessions
   each report one step of "acme" as done, at the same time *)

Quiet == \A s \in Sessions : sessions[s].pc = "idle"

ConcGenerate == Quiet /\ GenerateFaq("acme", <<Faq1>>)

ConcExecute == Quiet /\ Execute("acme", "us-east-1", "general", NoHours, TRUE)

ConcUpdate == Quiet /\ \E step \in 1..MaxStep : Update("acme", step, None, None, None)

ConcRead ==
    \E s \in Sessions, step \in 1..MaxStep :
        UpdateRead(s, "acme", step, None, None, None)

ConcWrite == \E s \in Sessions : UpdateWrite(s)

ConcurrentNext == ConcGenerate \/ ConcExecute \/ ConcUpdate \/ ConcRead \/ ConcWrite

ConcurrentSpec == Init /\ [][ConcurrentNext]_vars

\* Both sessions' calls have returned their success dict, for different steps
BothReturned ==
    /\ \A s \in Sessions : sessions[s].pc = "returned" /\ sessions[s].loaded.exists
    /\ sessions["s1"].call.step # sessions["s2"].call.step

\* C13 (lost update): when two successful wizard_update_onboarding_state
\* calls for the same brand with different steps have both returned, then
\* both steps are in completed_steps if the calls ran one after the other,
\* and, if both read the state file before either wrote it and neither step
\* was completed in what they read, exactly one of the two steps is: the
\* other one is lost.
C13_LostUpdate ==
    BothReturned =>
        LET a == sessions["s1"].call.step
            b == sessions["s2"].call.step
            done == ToSet(files["acme"].completed_steps)
            read == ToSet(sessions["s1"].loaded.completed_steps)
                        \cup ToSet(sessions["s2"].loaded.completed_steps)
        IN  /\ ~overlapped => {a, b} \subseteq done
            /\ (overlapped /\ a \notin read /\ b \notin read) =>
                    (a \in done) # (b \in done)

\* Both calls returned and the step of one is missing from completed_steps
C13_Witness ==
    /\ BothReturned
    /\ overlapped
    /\ sessions["s1"].result.total_completed = 1
    /\ sessions["s2"].result.total_completed = 1
    /\ Len(files["acme"].completed_steps) = 1

----------------------------------------------------------------------------
(* LoopSpec: a single driver that does nothing but the loop of the tool
   descriptions on "acme": request the plan with resume=True, carry out
   next_step, report it as done (with or without its output) or as failed. The driver
   keeps asking for the plan (weak fairness), and a step that can be
   reported again and again is at last reported as done (strong fairness):
   every step succeeds after finitely many failures. *)

LoopPlan == Execute("acme", "us-east-1", "general", NoHours, TRUE)

LoopSucceed ==
    \E value \in {None, "id-1"} :
        /\ offered["acme"] # 0
        /\ Update("acme", offered["acme"], SaveOutputOf(Descriptor(offered["acme"])),
                  value, None)

LoopFail ==
    /\ offered["acme"] # 0
    /\ Update("acme", offered["acme"], None, None, "timeout")

LoopNext == LoopPlan \/ LoopSucceed \/ LoopFail

LoopSpec ==
    Init /\ [][LoopNext]_vars /\ WF_vars(LoopPlan) /\ SF_vars(LoopSucceed)

\* All ten steps of "acme" are completed
AllCompleted ==
    files["acme"].exists /\ ToSet(files["acme"].completed_steps) = 1..NumSteps

\* The plan just returned for "acme" has no next_step and all ten steps are
\* completed
Finished ==
    IsPlan(resp, "acme") /\ resp.result.next_step = NoStep /\ AllCompleted

\* C14 (termination of the driver loop): the loop eventually gets a plan
\* whose next_step is null with completed_steps = {1..10}, and from then on
\* every plan returned has next_step null.
C14_DriverLoopTerminates ==
    /\ <>Finished
    /\ [](Finished => [](IsPlan(resp, "acme") => resp.result.next_step = NoStep))

\* The same, for a driver that starts where the directory ./acme exists
C14_TerminatesWhereDirectoryExists ==
    ("acme" \in dirs) => C14_DriverLoopTerminates

----------------------------------------------------------------------------
(* FaqSpec: wizard_generate_faq_files called again and again for "acme" with
   lists of up to MaxFaqs FAQs, between plan requests: a FAQ whose title has
   a slug longer than 50 characters with a dash in 50th place, and a FAQ
   without title. A list may hold the same FAQ several times. *)

MaxFaqs == 2

\* 49 times "a", "!", "bb": the slug is 49 times "a", "-", "bb"
LongTitle == [i \in 1..49 |-> "a"] \o <<"!", "b", "b">>

FaqLong ==
    [has_title |-> TRUE, title |-> LongTitle,
     summary |-> "A long question", content |-> "A short answer"]

FaqUntitled ==
    [has_title |-> FALSE, title |-> <<>>, summary |-> "", content |-> "Ask us"]

FaqPool == {FaqLong, FaqUntitled}

FaqInputs == UNION {[1..n -> FaqPool] : n \in 0..MaxFaqs}

FaqGenerate == \E faqs \in FaqInputs : GenerateFaq("acme", faqs)

FaqExecute == Execute("acme", "us-east-1", "general", NoHours, TRUE)

FaqNext == FaqGenerate \/ FaqExecute

FaqSpec == Init /\ [][FaqNext]_vars

\* The file names expected of the FAQs drawn, written out: the index in two
\* digits, a dash, the slug of at most 50 characters, ".txt"
ExpectedIndex == << <<"0", "1">>, <<"0", "2">>, <<"0", "3">>, <<"0", "4">> >>

ExpectedSlug(faq, i) ==
    CASE faq = FaqLong -> [k \in 1..50 |-> IF k = 50 THEN "-" ELSE "a"]
      [] faq = FaqUntitled ->
            <<"q", "u", "e", "s", "t", "i", "o", "n", "-", ExpectedIndex[i][2]>>

ExpectedName(faq, i) ==
    ExpectedIndex[i] \o <<"-">> \o ExpectedSlug(faq, i) \o <<".", "t", "x", "t">>

\* C19 (FAQ files): after wizard_generate_faq_files with n FAQs, files_created
\* has n paths, pairwise distinct, the i-th being the file in ./<brand>/faq
\* named by the two-digit i, a dash and the slug of the i-th title capped at
\* 50 characters; each of these files exists, and faq_count is n.
C19_OneFilePerFaq ==
    \A b \in Brands :
        (resp.call.op = "generate_faq" /\ resp.call.brand = b) =>
            LET faqs == resp.call.faqs
                created == resp.result.files_created
            IN  /\ Len(created) = Len(faqs)
                /\ files[b].faq_count = Len(faqs)
                /\ \A i \in 1..Len(faqs) :
                      /\ created[i] = <<b, "faq", ExpectedName(faqs[i], i)>>
                      /\ created[i][3] \in DOMAIN faqFiles[b]
                      /\ Len(ExpectedSlug(faqs[i], i)) <= SlugCap
                /\ \A i, j \in 1..Len(faqs) : i # j => created[i] # created[j]

\* C29 (FAQ directory holds exactly the files created): after
\* wizard_generate_faq_files the files of the brand's FAQ directory are the
\* files named in files_created and no others, so that faq_count is the
\* number of files in the directory.
C29_DirectoryHoldsCreatedFiles ==
    \A b \in Brands :
        (resp.call.op = "generate_faq" /\ resp.call.brand = b) =>
            LET created == resp.result.files_created
            IN  /\ DOMAIN faqFiles[b] = {created[i][3] : i \in 1..Len(created)}
                /\ files[b].faq_count = Cardinality(DOMAIN faqFiles[b])

\* Two FAQs with the same long title were written to two files
C19_Witness ==
    /\ resp.call.op = "generate_faq"
    /\ resp.call.faqs = <<FaqLong, FaqLong>>
    /\ Len(resp.result.files_created) = 2
    /\ resp.result.files_created[1] # resp.result.files_created[2]
    /\ files["acme"].faq_count = 2

----------------------------------------------------------------------------
(* HoursSpec: plan requests for "acme" with the hours_config argument left
   out, empty, without schedule, with schedules of zero, one and two items,
   and with a clock that int() rejects *)

\* hours_config = {}
EmptyHours ==
    [given |-> TRUE, timezone |-> Absent, has_schedule |-> FALSE, schedule |-> <<>>]

\* hours_config = {"timezone": "Europe/London"}
ZoneOnlyHours ==
    [given |-> TRUE, timezone |-> "Europe/London", has_schedule |-> FALSE,
     schedule |-> <<>>]

\* hours_config = {"schedule": []}
EmptySchedule ==
    [given |-> TRUE, timezone |-> Absent, has_schedule |-> TRUE, schedule |-> <<>>]

\* hours_config = {"schedule": [{"day": "sunday"}, {"day": "monday", "start": "8"}]}
TwoDayHours ==
    [given |-> TRUE, timezone |-> Absent, has_schedule |-> TRUE,
     schedule |-> <<[day |-> "sunday", start |-> <<>>, end |-> <<>>],
                    [day |-> "monday", start |-> <<"8">>, end |-> <<>>]>>]

\* hours_config = {"schedule": [{"day": "monday", "start": "9h"}]}
MalformedHours ==
    [given |-> TRUE, timezone |-> Absent, has_schedule |-> TRUE,
     schedule |-> <<[day |-> "monday", start |-> <<"9", "h">>, end |-> <<>>]>>]

HoursInputs ==
    {NoHours, EmptyHours, ZoneOnlyHours, EmptySchedule, WeekendHours, TwoDayHours,
     MalformedHours}

HoursGenerate == GenerateFaq("acme", <<Faq1>>)

HoursExecute ==
    \E hours \in HoursInputs, resume \in BOOLEAN :
        Execute("acme", "us-east-1", "general", hours, resume)

HoursNext == HoursGenerate \/ HoursExecute

HoursSpec == Init /\ [][HoursNext]_vars

\* Monday to Friday, 09:00 to 17:00
MondayToFriday ==
    [i \in 1..5 |->
        [Day |-> <<"MONDAY", "TUESDAY", "WEDNESDAY", "THURSDAY", "FRIDAY">>[i],
         StartTime |-> [Hours |-> 9, Minutes |-> 0],
         EndTime |-> [Hours |-> 17, Minutes |-> 0]]]

\* The days of the schedules drawn, in the order supplied, as the plan is to
\* name them
ExpectedDays(h) ==
    CASE h = WeekendHours -> <<"SATURDAY">>
      [] h = TwoDayHours -> <<"SUNDAY", "MONDAY">>
      [] h = EmptySchedule -> <<>>

\* C20 (hours of step 4): in every plan returned, the config of step 4 is the
\* five entries Monday to Friday 09:00-17:00 when hours_config was left out
\* or has no schedule key, and otherwise has one entry per schedule item, for
\* the days supplied in the order supplied.
C20_HoursOfStepFour ==
    \A b \in Brands :
        IsPlan(resp, b) =>
            LET h == resp.call.hours
                config == resp.result.steps[4].params.config
            IN  IF ~h.given \/ ~h.has_schedule
                THEN config = MondayToFriday
                ELSE /\ Len(config) = Len(h.schedule)
                     /\ \A i \in 1..Len(config) : config[i].Day = ExpectedDays(h)[i]

\* C27 (hours survive resume): a plan returned for a call with resume=True
\* and no hours_config, on a brand whose state holds the custom hours_config
\* of an earlier call (Saturday 10:30 to 14:00, London time), has that
\* schedule and that timezone in step 4.
C27_PersistedHoursUsedOnResume ==
    \A b \in Brands :
        (/\ IsPlan(resp, b)
         /\ resp.call.resume
         /\ resp.call.hours = NoHours
         /\ files[b].hours_config = WeekendHours)
        => /\ resp.result.steps[4].params.config =
                <<[Day |-> "SATURDAY",
                   StartTime |-> [Hours |-> 10, Minutes |-> 30],
                   EndTime |-> [Hours |-> 14, Minutes |-> 0]]>>
           /\ resp.result.steps[4].params.time_zone = "Europe/London"

\* A plan built from a schedule of two items
C20_Witness ==
    /\ IsPlan(resp, "acme")
    /\ resp.call.hours = TwoDayHours
    /\ Len(resp.result.steps[4].params.config) = 2
    /\ resp.result.steps[4].params.config[1].Day = "SUNDAY"
    /\ resp.result.steps[4].params.config[2].StartTime = [Hours |-> 8, Minutes |-> 0]

----------------------------------------------------------------------------
(* CoreSpec: instances are created in a common and in another region and
   deleted, with and without confirmation, up to MaxCalls delete_instance
   calls; the region listing may fail *)

MaxCalls == 3

FullListing ==
    Listing(<<"eu-central-1", "eu-west-1", "sa-east-1", "us-east-1", "us-west-2">>)

CoreCreate ==
    \E region \in {"us-west-2", "sa-east-1"} : CreateInstance("acme", region)

CoreDelete ==
    \E id \in InstanceIds, confirm \in BOOLEAN, listing \in {FullListing, ListingFails} :
        /\ Len(history) < MaxCalls
        /\ DeleteInstance(id, confirm, listing)

CoreNext == CoreCreate \/ CoreDelete

CoreSpec == Init /\ [][CoreNext]_vars

\* The delete_instance API calls among the API calls of the last tool call
DeleteCalls(r) == {i \in 1..Len(r.api) : r.api[i].api = "delete_instance"}

\* C21 (confirmation gate): a delete_instance call with confirm false returns
\* CONFIRMATION_REQUIRED, makes no API call and leaves every instance as it
\* is; a call with confirm true on an instance that get_instance_region
\* finds deletes it and returns DELETED, whatever calls were made before.
C21_DeleteNeedsConfirm ==
    [][resp'.call.op = "delete_instance" =>
          LET id == resp'.call.instance_id
          IN  /\ ~resp'.call.confirm =>
                    /\ resp'.raised = None
                    /\ resp'.result.status = "CONFIRMATION_REQUIRED"
                    /\ DeleteCalls(resp') = {}
                    /\ resp'.api = <<>>
                    /\ cloud' = cloud
              /\ (resp'.call.confirm /\ resp'.raised = None) =>
                    /\ resp'.result.status = "DELETED"
                    /\ Cardinality(DeleteCalls(resp')) = 1
                    /\ cloud[id] # Absent
                    /\ cloud' = [cloud EXCEPT ![id] = Absent]
              /\ (resp'.call.confirm /\ cloud[id] \in ToSet(CommonRegions)) =>
                    resp'.raised = None]_vars

\* An instance was deleted by a first, confirmed call: no unconfirmed call
\* for it came before
C21_Witness ==
    /\ resp.call.op = "delete_instance"
    /\ resp.call.confirm
    /\ resp.raised = None
    /\ resp.result.status = "DELETED"
    /\ cloud[resp.call.instance_id] = Absent
    /\ \A i \in 1..Len(history) :
          (history[i].op = "delete_instance"
           /\ history[i].instance_id = resp.call.instance_id) => history[i].confirm

----------------------------------------------------------------------------
(* SessionSpec: up to MaxCalls set_session and clear_session calls, with
   fields left out, empty or given, and config_create_queue calls between
   them, with and without an instance_id and a region of their own *)

SessionSet ==
    \E instance_id \in {None, "", "i-1", "i-2"}, region \in {None, "eu-west-1"} :
        /\ Len(history) < MaxCalls
        /\ SetSession(instance_id, region)

SessionClear == Len(history) < MaxCalls /\ ClearSession

SessionConfig ==
    \E instance_id \in {None, "", "i-2"}, region \in {None, "us-east-1"} :
        ConfigCreateQueue("acme Support", instance_id, region)

SessionNext == SessionSet \/ SessionClear \/ SessionConfig

SessionSpec == Init /\ [][SessionNext]_vars

\* The positions of `past` at which set_session was given a non-empty value
\* for the field, with no clear_session and no other such set_session after
LastGiven(past, field) ==
    {i \in 1..Len(past) :
        /\ past[i].op = "set_session"
        /\ Truthy(past[i][field])
        /\ \A j \in (i + 1)..Len(past) :
              /\ past[j].op # "clear_session"
              /\ ~(past[j].op = "set_session" /\ Truthy(past[j][field]))}

\* The most recent non-empty value passed to set_session for the field since
\* the last clear_session, None when there is none
Stored(past, field) ==
    IF LastGiven(past, field) = {} THEN None
    ELSE past[CHOOSE i \in LastGiven(past, field) : TRUE][field]

----------------------------------------------------------------------------
(* RegionSpec: describe_instance for an instance id that Amazon Connect knows
   in any set of regions, with region listings that are empty, short, long,
   in another order than the common regions, or that fail. A region the
   account lists not is a region the instance cannot be in, unless it is one
   of the common four. *)

Listings ==
    {ListingFails, Listing(<<>>), Listing(<<"eu-central-1">>), FullListing,
     Listing(<<"sa-east-1", "ap-southeast-2", "eu-central-1", "us-east-1">>)}

RegionDescribe ==
    \E ok \in SUBSET Regions, listing \in Listings :
        /\ listing.returned => ok \subseteq ToSet(CommonRegions) \cup ToSet(listing.regions)
        /\ DescribeInstance("i-1", ok, listing)

RegionNext == RegionDescribe

RegionSpec == Init /\ [][RegionNext]_vars

IsLocate(r) == r.call.op = "describe_instance"

\* The regions were probed in the order of the claim: no region twice, the
\* common regions first and in their order
ProbedInOrder(probes) ==
    /\ \A i, j \in 1..Len(probes) : i # j => probes[i] # probes[j]
    /\ \A i \in 1..Len(probes) :
          IF i <= Len(CommonRegions) THEN probes[i] = CommonRegions[i]
          ELSE probes[i] \notin ToSet(CommonRegions)

\* The region returned is the first probed region in which describe_instance
\* succeeds
FirstSuccess(r) ==
    r.raised = None =>
        /\ Len(r.probes) > 0
        /\ r.region = r.probes[Len(r.probes)]
        /\ r.region \in r.ok
        /\ \A i \in 1..(Len(r.probes) - 1) : r.probes[i] \notin r.ok

\* C24 as stated: get_instance_region probes the common regions in their
\* order before any other region and no region twice, returns the first
\* region in which describe_instance succeeds, and raises ValueError exactly
\* when describe_instance succeeds in no region.
C24_FirstRegionOrValueError ==
    IsLocate(resp) =>
        /\ ProbedInOrder(resp.probes)
        /\ FirstSuccess(resp)
        /\ resp.raised \in {None, "ValueError"}
        /\ resp.raised = "ValueError" <=> resp.ok = {}

\* C24 as amended: the same, except that when describe_instance succeeds in
\* none of the four common regions and the listing of the regions raises,
\* that exception is what get_instance_region raises, after probing the four
\* common regions only.
C24_FirstRegionOrErrors ==
    IsLocate(resp) =>
        /\ ProbedInOrder(resp.probes)
        /\ FirstSuccess(resp)
        /\ IF resp.ok \cap ToSet(CommonRegions) = {} /\ ~resp.listing.returned
           THEN resp.raised = "ListingError" /\ resp.probes = CommonRegions
           ELSE /\ resp.raised \in {None, "ValueError"}
                /\ resp.raised = "ValueError" <=> resp.ok = {}

\* The instance was found in the second of the other regions listed, after
\* the four common regions and the first other region
C24_Witness ==
    /\ IsLocate(resp)
    /\ resp.listing = FullListing
    /\ resp.ok = {"sa-east-1"}
    /\ resp.raised = None
    /\ resp.region = "sa-east-1"
    /\ resp.probes = CommonRegions \o <<"eu-central-1", "sa-east-1">>

----------------------------------------------------------------------------
(* ProtocolSpec: the driver of DriverSpec, keeping to the protocol in full:
   a step is reported as done only when it is the step handed out as
   next_step, and with the step's save_output key and a non-empty value
   whenever its descriptor names one *)

ProtocolGenerate == GenerateFaq("acme", <<Faq1>>)

ProtocolPlan ==
    \E resume \in BOOLEAN : Execute("acme", "us-east-1", "general", NoHours, resume)

ProtocolSucceed ==
    \E value \in {"id-1", "id-2"} :
        LET key == SaveOutputOf(Descriptor(offered["acme"]))
        IN  /\ offered["acme"] # 0
            /\ Update("acme", offered["acme"], key,
                      IF key = None THEN None ELSE value, None)

ProtocolFail ==
    /\ offered["acme"] # 0
    /\ Update("acme", offered["acme"], None, None, "timeout")

ProtocolNext == ProtocolGenerate \/ ProtocolPlan \/ ProtocolSucceed \/ ProtocolFail

ProtocolSpec == Init /\ [][ProtocolNext]_vars

\* C28 (no placeholder in next_step): in every plan returned under the
\* protocol, each parameter of next_step that is fed from a resource holds
\* the value recorded for that resource, not its placeholder text.
C28_NoPlaceholderInNextStep ==
    \A b \in Brands :
        (IsPlan(resp, b) /\ resp.result.next_step # NoStep) =>
            \A d \in Dependencies :
                d.step = resp.result.next_step.step =>
                    /\ recorded[b][d.key] # Absent
                    /\ resp.result.next_step.params[d.param] = recorded[b][d.key]
                    /\ resp.result.next_step.params[d.param] # d.placeholder

\* The plan hands out step 6 with the queue id recorded at step 5
C28_Witness ==
    /\ IsPlan(resp, "acme")
    /\ resp.result.next_step.step = 6
    /\ recorded["acme"]["queue_id"] = "id-2"
    /\ resp.result.next_step.params.default_outbound_queue_id = "id-2"

----------------------------------------------------------------------------
(* PlanRaceSpec: after some calls made one at a time, session s1 requests
   the plan of "acme" with resume=True while session s2 reports a step of
   "acme" as done, with a resource *)

RaceGenerate == Quiet /\ GenerateFaq("acme", <<Faq1>>)

RaceExecute == Quiet /\ Execute("acme", "us-east-1", "general", NoHours, TRUE)

RaceUpdate == Quiet /\ \E step \in 1..MaxStep : Update("acme", step, None, None, None)

RacePlanRead == ExecuteRead("s1", "acme", "us-east-1", "general", NoHours, TRUE)

RacePlanWrite == ExecuteWrite("s1")

RaceReportRead ==
    \E step \in 1..MaxStep : UpdateRead("s2", "acme", step, "instance_id", "i-001", None)

RaceReportWrite == UpdateWrite("s2")

PlanRaceNext ==
    \/ RaceGenerate \/ RaceExecute \/ RaceUpdate
    \/ RacePlanRead \/ RacePlanWrite \/ RaceReportRead \/ RaceReportWrite

PlanRaceSpec == Init /\ [][PlanRaceNext]_vars

\* The plan request of s1 and the successful update of s2 have both returned
PlanAndReportReturned ==
    /\ sessions["s1"].pc = "returned"
    /\ sessions["s1"].raised = None
    /\ sessions["s2"].pc = "returned"
    /\ sessions["s2"].loaded.exists

\* The step reported by s2 is in completed_steps and its resource in resources
ReportPersisted ==
    /\ sessions["s2"].call.step \in ToSet(files["acme"].completed_steps)
    /\ files["acme"].resources[sessions["s2"].call.resource_key]
            = sessions["s2"].call.resource_value

\* C30 as stated: however a plan request with resume=True and a successful
\* wizard_update_onboarding_state call for the same brand interleave, once
\* both have returned the step reported is in completed_steps and its
\* resource in resources.
C30_PlanRequestKeepsReport ==
    PlanAndReportReturned => ReportPersisted

\* C30 as amended: the same, provided the update did not write the state
\* file between the plan request's reading it and its saving it (the plan
\* request saves the state it loaded, with the call's settings).
C30_PlanRequestKeepsReportUnlessStale ==
    (PlanAndReportReturned /\ ~sessions["s1"].stale) => ReportPersisted

\* The two calls overlapped, the plan request saved first, and the report
\* is in the state file
C30_Witness ==
    /\ PlanAndReportReturned
    /\ overlapped
    /\ ~sessions["s1"].stale
    /\ sessions["s2"].stale
    /\ ReportPersisted

====
